---- MODULE Spec2Model ----
(***************************************************************************)
(* A model of the n8n service manager (src/service-manager/main.py and    *)
(* sheet_downloader.py): the export / import of the container's data      *)
(* directory, the spreadsheet downloader with its browser-assisted        *)
(* fallback watcher, and the result receiver with the UI's callback        *)
(* handling.                                                               *)
(*                                                                         *)
(* The specifications share the variables:                                 *)
(*   SpecArchive   export_n8n_data / import_n8n_data on a file system      *)
(*   SpecDownload  download_sheet, _watch_for_download, the Downloads dir  *)
(*   SpecReceiver  POST /callback/results, handle_n8n_callback             *)
(*   SpecGui       the acquisition buttons and the file hand-off           *)
(*   SpecContainer the container button beside the export / import threads *)
(*   SpecImport    import_n8n_data on archives with hostile member names   *)
(*   SpecExport    export_n8n_data with exceptions raised on its way       *)
(* Each leaves the other parts' variables unchanged.                       *)
(***************************************************************************)
EXTENDS Integers, Sequences, FiniteSets, TLC

VARIABLES
  \* ---- export / import ------------------------------------------------
  n8n_data,      \* docker-n8n/n8n-data: [exists, files: path -> bytes, dirs]
  env_file,      \* docker-n8n/.env: [exists, data]
  outside,       \* files written anywhere else: path -> bytes (paths from docker-n8n/)
  user_data,     \* n8n-files/user-data: archive timestamp -> archive file
  exported_from, \* history: timestamp -> the data directory's files at export
  last,          \* history: the last operation, its inputs, result and pre-state
  ops,           \* history: operations performed so far
  \* ---- download_sheet and its watcher ----------------------------------
  downloads,     \* the user's Downloads folder: file name -> [mtime, born]
  clock,         \* the file system's clock (each write gets a later time)
  staging,       \* n8n-files/downloads: staged file name -> bytes
  watches,       \* the watcher threads started so far: [baseline, state] and
                 \* (history) the clock when started and when last polled
  callbacks,     \* the calls of the acquisition callback: [by, file]
  dl,            \* history: the last download_sheet call, its inputs and result
  calls,         \* download_sheet calls so far
  \* ---- result receiver and the UI's callback handling -------------------
  flask,           \* the installed Flask: does get_json reject a non-JSON mimetype
  gui_instance,    \* main.py's global: has the ServiceManagerGUI been created
  output_directory,\* ServiceManagerGUI.output_directory (None until selected)
  n8n_files,       \* the files present under n8n-files/ (paths below it)
  out_files,       \* the files copied into the output directory (names)
  pending,         \* bodies scheduled with root.after, not yet handled
  ui_log,          \* the lines of the log display: [level, text]
  dialogs,         \* the message boxes shown: [kind, text]
  progress_label,  \* the text of the progress label
  http,            \* history: each POST with the answer it got
  handled,         \* history: each handled body with what the UI then showed
  picks,           \* history: output directories selected so far
  \* ---- the UI's acquisition buttons and the file hand-off ----------------
  sheets,          \* n8n-files/sheets, the inbox: file name -> bytes
  download_btn,    \* state of the 'Download & Process' button
  local_file_btn,  \* state of the 'Browse & Process' button
  processing,      \* ServiceManagerGUI.processing
  progress_bar,    \* is the progress bar running
  download_thread, \* ServiceManagerGUI.download_thread: a watch (its index) or 0
  ran,             \* callbacks whose closure the Tk main loop has run so far
  triggered,       \* history: workflow runs triggered (production POSTs answered 200)
  handoff,         \* history: the last hand-off closure, its inputs and outcome
  browses,         \* history: files selected with 'Browse & Process' so far
  \* ---- the container and the threads of the export / import buttons ------
  container,       \* is the container n8n-custom running
  docker_btn,      \* state of the 'Start Container' / 'Stop Container' button
  export_btn,      \* state of the 'Export n8n Data' button
  import_btn,      \* state of the 'Import n8n Data' button
  worker,          \* the export / import thread: [kind, at, left, ps, ok]
  script,          \* the thread of toggle_docker: the script it runs, or "none"
  docker_status,   \* the text of the container status label
  timers,          \* pending root.after(3000, check_docker_status) timers
  presses          \* history: presses of the three buttons so far

archiveVars == <<n8n_data, env_file, outside, user_data, exported_from, last, ops>>

downloadVars == <<downloads, clock, staging, watches, callbacks, dl, calls>>

receiverVars == <<flask, gui_instance, output_directory, n8n_files, out_files,
                  pending, ui_log, dialogs, progress_label, http, handled, picks>>

guiVars == <<sheets, download_btn, local_file_btn, processing, progress_bar,
             download_thread, ran, triggered, handoff, browses>>

containerVars == <<container, docker_btn, export_btn, import_btn, worker, script,
                   docker_status, timers, presses>>

vars == <<archiveVars, downloadVars, receiverVars, guiVars, containerVars>>

(***************************************************************************)
(* Bounds and value universes                                              *)
(***************************************************************************)
MaxFiles == 2   \* files in the data directory of an initial state
MaxStamp == 1   \* clock readings 0..MaxStamp that name an archive
MaxOps   == 3   \* operations of one run of SpecArchive
MaxDownloads == 2   \* download_sheet calls of one run of SpecDownload
MaxClock == 2   \* writes to the Downloads folder in one run of SpecDownload

\* A file's content is a byte string: Empty after open(.., 'wb') truncated it.
Empty == <<>>
Bytes == {<<1>>, <<2>>}

\* docker-n8n/.env, absent or holding bytes.
NoEnv == [exists |-> FALSE, data |-> Empty]
EnvOf(b) == [exists |-> TRUE, data |-> b]

\* File and directory names inside the data directory.
Names == {"db", "nodes", ".first_run_done"}

\* Paths relative to the data directory, as sequences of components.
Paths == {<<a>> : a \in Names} \cup {<<a, b>> : a, b \in Names}

IsProperPrefix(p, q) == Len(p) < Len(q) /\ SubSeq(q, 1, Len(p)) = p

Ancestors(p) == {SubSeq(p, 1, k) : k \in 1..(Len(p) - 1)}

\* Sets of paths that can all be files at once (none is a directory of another).
PrefixFree(S) == \A p, q \in S : ~IsProperPrefix(p, q)

EmptyFiles == [p \in {} |-> Empty]

\* A data directory holding the files fs (path -> bytes) and their parent directories.
DirOf(fs) ==
  [exists |-> TRUE, files |-> fs, dirs |-> UNION {Ancestors(p) : p \in DOMAIN fs}]

NoDataDir == [exists |-> FALSE, files |-> EmptyFiles, dirs |-> {}]

InitialDataDirs ==
  {NoDataDir} \cup
  {DirOf(fs) : fs \in UNION {[S -> Bytes] :
      S \in {T \in SUBSET Paths : Cardinality(T) <= MaxFiles /\ PrefixFree(T)}}}

Timestamps == 0..MaxStamp

(***************************************************************************)
(* `docker ps --format {{.Names}}`: its standard output as a sequence of   *)
(* tokens, or the subprocess call raising (docker missing, timeout).       *)
(***************************************************************************)
ContainerName == <<"n8n", "-custom">>

PsOutputs ==
  { [raised |-> TRUE,  stdout |-> <<>>],
    [raised |-> FALSE, stdout |-> <<"pg", "\n", "n8n", "-custom", "\n">>],
    [raised |-> FALSE, stdout |-> <<"n8n", "-custom", "-old", "\n">>],
    [raised |-> FALSE, stdout |-> <<"n8n", "\n", "pg", "-custom", "\n">>] }

\* Python's `needle in hay` on strings.
Contains(hay, needle) ==
  \E i \in 1..(Len(hay) - Len(needle) + 1) :
     SubSeq(hay, i, i + Len(needle) - 1) = needle

\* A plausible slip: the listing compared line by line for equality.
is_docker_running_exact(ps) ==
  /\ ~ps.raised
  /\ \E i \in 1..Len(ps.stdout) :
       /\ i + Len(ContainerName) <= Len(ps.stdout)
       /\ SubSeq(ps.stdout, i, i + Len(ContainerName) - 1) = ContainerName
       /\ ps.stdout[i + Len(ContainerName)] = "\n"
       /\ (i = 1 \/ ps.stdout[i - 1] = "\n")

is_docker_running(ps) ==
  IF ps.raised THEN FALSE ELSE Contains(ps.stdout, ContainerName)

(***************************************************************************)
(* Files and zip archives                                                  *)
(***************************************************************************)
Put(f, k, v) == [x \in DOMAIN f \cup {k} |-> IF x = k THEN v ELSE f[x]]

\* A zip member: its name as path components (slash: the name ends in '/'),
\* its bytes, and whether its stored data passes the CRC check on read.
Member(parts, slash, data, crcOk) ==
  [parts |-> parts, slash |-> slash, data |-> data, crcOk |-> crcOk]

\* A file a user may choose: missing, not a zip (no end-of-central-directory
\* record), or a zip whose central directory is readable (dirOk) or not.
MissingFile == [kind |-> "missing", dirOk |-> FALSE, entries |-> <<>>]
TextFile    == [kind |-> "text",    dirOk |-> FALSE, entries |-> <<>>]
ZipFile(entries) == [kind |-> "zip", dirOk |-> TRUE, entries |-> entries]
BrokenZip   == [kind |-> "zip", dirOk |-> FALSE, entries |-> <<>>]

\* zipfile.is_zipfile: true when an end-of-central-directory record is found.
is_zipfile(f) == f.kind = "zip"

\* Archives that did not come from export_n8n_data.
ForeignFiles ==
  [ missing |-> MissingFile,
    text    |-> TextFile,
    broken  |-> BrokenZip,
    mixed   |-> ZipFile(<< Member(<<"n8n-data">>, TRUE, Empty, TRUE),
                          Member(<<"n8n-data", "db">>, FALSE, <<2>>, TRUE),
                          Member(<<"README">>, FALSE, <<1>>, TRUE),
                          Member(<<".env">>, FALSE, <<2>>, TRUE) >>),
    crc     |-> ZipFile(<< Member(<<"n8n-data", "nodes", "db">>, FALSE, <<1>>, TRUE),
                          Member(<<".env">>, FALSE, <<1>>, FALSE) >>) ]

\* Archives whose member names leave the data directory: with '..' components,
\* and "n8n-data//tmp/x", whose remainder after the prefix is absolute.
SlipFiles ==
  [ dotdot |-> ZipFile(<< Member(<<"n8n-data", "..", "start-n8n.sh">>, FALSE, <<1>>, TRUE),
                          Member(<<"n8n-data", "db", "..", "..", ".env">>, FALSE, <<2>>, TRUE),
                          Member(<<"n8n-data", "db", "..", "nodes">>, FALSE, <<1>>, TRUE) >>),
    rooted |-> ZipFile(<< Member(<<"n8n-data", "/", "tmp", "x">>, FALSE, <<2>>, TRUE),
                          Member(<<"n8n-data", "db">>, FALSE, <<1>>, TRUE) >>) ]

(***************************************************************************)
(* export_n8n_data                                                         *)
(***************************************************************************)
\* A plausible slip: only the top-level nodes/ directory is skipped.
all_files_top_nodes(d) ==
  {p \in DOMAIN d.files : p[Len(p)] # ".first_run_done" /\ p[1] # "nodes"}

\* The files export archives: every file but .first_run_done and anything with
\* a path component `nodes`.
all_files(d) ==
  {p \in DOMAIN d.files :
     /\ p[Len(p)] # ".first_run_done"
     /\ ~\E i \in 1..Len(p) : p[i] = "nodes"}

\* rglob's order is the file system's: any ordering of the files.
Orderings(S) ==
  {s \in [1..Cardinality(S) -> S] : \A i, j \in 1..Cardinality(S) : s[i] = s[j] => i = j}

\* What an operation returned and left behind; it wrote nothing outside the data
\* directory and .env unless said otherwise.
Outcome(ok, msg, data, env, archives) ==
  [ok |-> ok, msg |-> msg, data |-> data, env |-> env, archives |-> archives,
   outside |-> outside]

\* The archive written for the files in `order`, then .env if it exists.
ExportArchive(d, env, order) ==
  ZipFile([i \in 1..Len(order) |->
             Member(<<"n8n-data">> \o order[i], FALSE, d.files[order[i]], TRUE)]
          \o (IF env.exists THEN <<Member(<<".env">>, FALSE, env.data, TRUE)>> ELSE <<>>))

export_n8n_data(ps, ts, order) ==
  IF is_docker_running(ps)
    THEN Outcome(FALSE, "Cannot export while n8n container is running",
                 n8n_data, env_file, user_data)
  ELSE IF ~n8n_data.exists
    THEN Outcome(FALSE, "n8n-data directory not found", n8n_data, env_file, user_data)
  ELSE IF Cardinality(all_files(n8n_data)) + (IF env_file.exists THEN 1 ELSE 0) = 0
    THEN Outcome(FALSE, "No files found in n8n-data directory",
                 n8n_data, env_file, user_data)
  ELSE Outcome(TRUE, "exported", n8n_data, env_file,
               Put(user_data, ts, ExportArchive(n8n_data, env_file, order)))

\* An exception raised inside export_n8n_data: by user_data_dir.mkdir, by
\* zipfile.ZipFile(archive_path, 'w') before the file is created, or by the
\* k-th zipf.write (the source cannot be opened); error is the exception's class.
NoFault == [stage |-> "none", k |-> 0, error |-> "none"]

ExportFaults ==
  {NoFault} \cup
  {[stage |-> st, k |-> 0, error |-> e] :
     st \in {"mkdir", "create"}, e \in {"PermissionError", "OSError"}} \cup
  {[stage |-> "write", k |-> k, error |-> e] :
     k \in 1..(MaxFiles + 1), e \in {"PermissionError", "OSError"}}

\* The two except clauses at main.py:110-117.
export_error_msg(error) ==
  IF error = "PermissionError"
    THEN "Permission denied: Files may be locked by the running container"
    ELSE "Export failed"

\* export_n8n_data with the exception `fault` raised on its way. The with
\* block closes the archive on the way out: the file holds the entries written
\* before the exception, and no except clause removes it.
export_n8n_data_raising(ps, ts, order, fault) ==
  LET whole == ExportArchive(n8n_data, env_file, order).entries IN
  IF is_docker_running(ps)
    THEN Outcome(FALSE, "Cannot export while n8n container is running",
                 n8n_data, env_file, user_data)
  ELSE IF fault.stage = "mkdir"
    THEN Outcome(FALSE, export_error_msg(fault.error), n8n_data, env_file, user_data)
  ELSE IF ~n8n_data.exists
    THEN Outcome(FALSE, "n8n-data directory not found", n8n_data, env_file, user_data)
  ELSE IF Cardinality(all_files(n8n_data)) + (IF env_file.exists THEN 1 ELSE 0) = 0
    THEN Outcome(FALSE, "No files found in n8n-data directory",
                 n8n_data, env_file, user_data)
  ELSE IF fault.stage = "create"
    THEN Outcome(FALSE, export_error_msg(fault.error), n8n_data, env_file, user_data)
  ELSE IF fault.stage = "write" /\ fault.k <= Len(whole)
    THEN Outcome(FALSE, export_error_msg(fault.error), n8n_data, env_file,
                 Put(user_data, ts, ZipFile(SubSeq(whole, 1, fault.k - 1))))
  ELSE Outcome(TRUE, "exported", n8n_data, env_file,
               Put(user_data, ts, ZipFile(whole)))

(***************************************************************************)
(* import_n8n_data                                                         *)
(***************************************************************************)
\* member.startswith("n8n-data/")
StartsWithDataDir(m) ==
  /\ Len(m.parts) >= 1
  /\ m.parts[1] = "n8n-data"
  /\ (Len(m.parts) > 1 \/ m.slash)

\* member == ".env"
IsEnvMember(m) == m.parts = <<".env">> /\ ~m.slash

\* Where the operating system lands for `n8n_data_dir / remainder`, as a path
\* from docker-n8n/: each '..' leaves the directory reached so far, and a
\* remainder that starts with '/' replaces the base (pathlib's `/` with an
\* absolute right-hand side). <<"n8n-data", ...>> is inside the data directory.
RECURSIVE Walk(_, _)
Walk(at, rest) ==
  IF rest = <<>> THEN at
  ELSE IF Head(rest) # ".." THEN Walk(Append(at, Head(rest)), Tail(rest))
  ELSE IF at = <<"/">> THEN Walk(at, Tail(rest))
  ELSE IF at = <<>> \/ at[Len(at)] = ".." THEN Walk(Append(at, ".."), Tail(rest))
  ELSE Walk(SubSeq(at, 1, Len(at) - 1), Tail(rest))

Resolve(p) ==
  IF p # <<>> /\ Head(p) = "/" THEN Walk(<<"/">>, Tail(p)) ELSE Walk(<<"n8n-data">>, p)

InDataDir(q) == q # <<>> /\ Head(q) = "n8n-data"

\* The directories Path.mkdir(parents=True, exist_ok=True) of n8n_data_dir / p
\* passes through: every prefix of p, resolved.
Touched(p) == {Resolve(SubSeq(p, 1, k)) : k \in 0..Len(p)}

\* Those of them below the data directory, as paths inside it.
DirsOf(p) == {Tail(q) : q \in {x \in Touched(p) : InDataDir(x)}} \ {<<>>}

\* mkdir raises when one of them is a file.
MkdirRaises(st, p) ==
  \/ \E q \in DirsOf(p) : q \in DOMAIN st.data.files
  \/ <<".env">> \in Touched(p) /\ st.env.exists
  \/ \E q \in Touched(p) : q \in DOMAIN st.outside

Mkdir(d, p) ==
  [d EXCEPT !.exists = @ \/ \E q \in Touched(p) : InDataDir(q),
            !.dirs = @ \cup DirsOf(p)]

\* The state of an extraction: the data directory, .env, the files written
\* elsewhere, and whether it raised.
Extraction(d, env, out, raised) ==
  [data |-> d, env |-> env, outside |-> out, raised |-> raised]

\* A path that is a directory whatever the archive created: docker-n8n itself,
\* a directory above it, the root, or the data directory.
IsKnownDir(q) == q \in {<<>>, <<"/">>, <<"n8n-data">>} \/ q[Len(q)] = ".."

\* One member of the loop at main.py:150-164.
ExtractMember(st, m) ==
  IF StartsWithDataDir(m) THEN
    LET remainder == Tail(m.parts)
        target == Resolve(remainder)
        parent == IF remainder = <<>> THEN <<>>
                  ELSE SubSeq(remainder, 1, Len(remainder) - 1)
    IN IF m.slash THEN
         IF MkdirRaises(st, remainder)
           THEN Extraction(st.data, st.env, st.outside, TRUE)
           ELSE Extraction(Mkdir(st.data, remainder), st.env, st.outside, FALSE)
       ELSE IF MkdirRaises(st, parent)
         THEN Extraction(st.data, st.env, st.outside, TRUE)
       ELSE IF IsKnownDir(target) \/ (InDataDir(target) /\ Tail(target) \in st.data.dirs)
         \* open(target_path, 'wb') on a directory
         THEN Extraction(Mkdir(st.data, parent), st.env, st.outside, TRUE)
       ELSE
         \* the target is opened (created or truncated) before the member is read
         LET made == Mkdir(st.data, parent)
             bytes == IF m.crcOk THEN m.data ELSE Empty
         IN IF InDataDir(target)
              THEN Extraction([made EXCEPT !.files = Put(@, Tail(target), bytes)],
                              st.env, st.outside, ~m.crcOk)
            ELSE IF target = <<".env">>
              THEN Extraction(made, EnvOf(bytes), st.outside, ~m.crcOk)
            ELSE Extraction(made, st.env, Put(st.outside, target, bytes), ~m.crcOk)
  ELSE IF IsEnvMember(m) THEN
    Extraction(st.data, EnvOf(IF m.crcOk THEN m.data ELSE Empty), st.outside, ~m.crcOk)
  ELSE st

RECURSIVE ExtractAll(_, _, _)
ExtractAll(st, entries, i) ==
  IF i > Len(entries) \/ st.raised THEN st
  ELSE ExtractAll(ExtractMember(st, entries[i]), entries, i + 1)

\* A plausible slip: no validation, an unreadable archive read as an empty one.
import_n8n_data_unvalidated(file, ps) ==
  IF is_docker_running(ps)
    THEN Outcome(FALSE, "Cannot import while n8n container is running",
                 n8n_data, env_file, user_data)
  ELSE
    LET st == ExtractAll(Extraction(n8n_data, env_file, outside, FALSE), file.entries, 1)
    IN [Outcome(~st.raised, IF st.raised THEN "Import failed" ELSE "Successfully imported",
                st.data, st.env, user_data) EXCEPT !.outside = st.outside]

import_n8n_data(file, ps) ==
  IF is_docker_running(ps)
    THEN Outcome(FALSE, "Cannot import while n8n container is running",
                 n8n_data, env_file, user_data)
  ELSE IF file.kind = "missing"
    THEN Outcome(FALSE, "Archive file not found", n8n_data, env_file, user_data)
  ELSE IF ~is_zipfile(file)
    THEN Outcome(FALSE, "File is not a valid zip archive", n8n_data, env_file, user_data)
  ELSE IF ~file.dirOk
    \* zipfile.ZipFile raises BadZipFile before anything is extracted
    THEN Outcome(FALSE, "Import failed", n8n_data, env_file, user_data)
  ELSE
    LET st == ExtractAll(Extraction(n8n_data, env_file, outside, FALSE), file.entries, 1)
    IN [Outcome(~st.raised, IF st.raised THEN "Import failed" ELSE "Successfully imported",
                st.data, st.env, user_data) EXCEPT !.outside = st.outside]


(***************************************************************************)
(* sheet_downloader: the link resolver                                     *)
(* A URL is a sequence of tokens; the literal prefix of the pattern and    *)
(* runs of [a-zA-Z0-9-_] are tokens of their own.                          *)
(***************************************************************************)
LinkPrefix == "https://docs.google.com/spreadsheets/d/"
ExportSuffix == "/export?format=xlsx"
IdTokens == {"1AbC", "x-_9"}

Urls ==
  { <<LinkPrefix, "1AbC", "/edit#gid=0">>,
    <<"see ", LinkPrefix, "1AbC", "x-_9">>,
    <<LinkPrefix>>,
    <<LinkPrefix, "/edit">>,
    <<"http://docs.google.com/spreadsheets/d/", "1AbC">>,
    <<"not a link">> }

\* The positions where re.search can match: the prefix, then at least one id token.
MatchesAt(url) ==
  {i \in 1..(Len(url) - 1) : url[i] = LinkPrefix /\ url[i + 1] \in IdTokens}

\* ([a-zA-Z0-9-_]+) is greedy: the whole run of id tokens from position j.
RECURSIVE IdRun(_, _)
IdRun(url, j) ==
  IF j <= Len(url) /\ url[j] \in IdTokens THEN <<url[j]>> \o IdRun(url, j + 1) ELSE <<>>

Link(ok, link) == [ok |-> ok, link |-> link]

\* A plausible slip: `*` for `+`, so the prefix alone matches with an empty id.
get_google_sheet_download_link_empty_id(url) ==
  LET at == {i \in 1..Len(url) : url[i] = LinkPrefix} IN
    IF at = {} THEN Link(FALSE, <<>>)
    ELSE LET i == CHOOSE k \in at : \A m \in at : k <= m
         IN Link(TRUE, <<LinkPrefix>> \o IdRun(url, i + 1) \o <<ExportSuffix>>)

\* ok = FALSE stands for the ValueError.
get_google_sheet_download_link(url) ==
  IF MatchesAt(url) = {} THEN Link(FALSE, <<>>)
  ELSE LET i == CHOOSE k \in MatchesAt(url) : \A m \in MatchesAt(url) : k <= m
       IN Link(TRUE, <<LinkPrefix>> \o IdRun(url, i + 1) \o <<ExportSuffix>>)

\* ^(https?://\S+)$ : the tokens of a resolved link hold no whitespace.
is_valid_url(url) ==
  /\ Len(url) >= 1
  /\ url[1] \in {LinkPrefix, "http://localhost:5678"}
  /\ \A i \in 2..Len(url) : url[i] \in IdTokens \cup {ExportSuffix}

\* launched: whether the platform's browser launcher succeeded.
open_browser(url, launched) == is_valid_url(url) /\ launched

(***************************************************************************)
(* sheet_downloader: the Downloads folder and get_latest_xlsx              *)
(***************************************************************************)
None == <<>>

\* File names as <<stem, extension>>.
DownloadNames == {<<"a", ".xlsx">>, <<"b", ".xlsx">>, <<"notes", ".txt">>}

\* folder.glob("*.xlsx")
GlobXlsx(folder) == {f \in DOMAIN folder : f[2] = ".xlsx"}

\* A plausible slip: min for max, the least recently modified file.
get_latest_xlsx_oldest(folder) ==
  IF GlobXlsx(folder) = {} THEN None
  ELSE CHOOSE f \in GlobXlsx(folder) :
         \A g \in GlobXlsx(folder) : folder[f].mtime <= folder[g].mtime

get_latest_xlsx(folder) ==
  IF GlobXlsx(folder) = {} THEN None
  ELSE CHOOSE f \in GlobXlsx(folder) :
         \A g \in GlobXlsx(folder) : folder[g].mtime <= folder[f].mtime

(***************************************************************************)
(* sheet_downloader: download_sheet                                        *)
(***************************************************************************)
XlsxType == <<"application/vnd.openxmlformats-officedocument.spreadsheetml.sheet">>
HtmlType == <<"text/html", "; charset=utf-8">>
JsonType == <<"application/json">>
NoType   == <<>>   \* no Content-Type header: headers.get gives ""

ContentTypes == {XlsxType, HtmlType, JsonType, NoType}
Statuses == {200, 401, 404}

\* What requests.get gives: a response, or an exception (requests.Timeout,
\* another requests.RequestException, or an exception of another kind).
Response(status, ctype, body) ==
  [kind |-> "response", status |-> status, ctype |-> ctype, body |-> body]
Raised(kind) == [kind |-> kind, status |-> 0, ctype |-> NoType, body |-> Empty]
NoGet == Raised("none")

GetOutcomes ==
  {Response(st, ct, <<1>>) : st \in Statuses, ct \in ContentTypes}
  \cup {Response(200, XlsxType, <<2>>)}
  \cup {Raised("timeout"), Raised("connection"), Raised("error")}

\* A plausible slip: the fallback taken on the status alone.
is_unexpected_content_never(ctype) == FALSE

\* "text/html" in content_type or "application/json" in content_type
is_unexpected_content(ctype) ==
  Contains(ctype, <<"text/html">>) \/ Contains(ctype, <<"application/json">>)

\* response.status_code == 401 or is_unexpected_content
needs_authentication(get) ==
  get.status = 401 \/ is_unexpected_content(get.ctype)

\* A plausible slip: the file opened for writing and nothing written.
written_content_nothing(get) == Empty

\* f.write(response.content)
written_content(get) == get.body

\* The classes of the exceptions requests.get raises: requests.Timeout is a
\* subclass of requests.RequestException, and both are Exceptions.
IsInstance(kind, class) ==
  \/ class = "Exception"
  \/ class = "RequestException" /\ kind \in {"timeout", "connection"}
  \/ class = "Timeout" /\ kind = "timeout"

\* The except clauses of download_sheet in the order they are written.
ExceptClauses ==
  <<[class |-> "RequestException", code |-> -4],
    [class |-> "Timeout", code |-> -5],
    [class |-> "Exception", code |-> -6]>>

\* Python runs the first clause whose class the exception is an instance of.
handler_code(kind) ==
  LET first == CHOOSE i \in DOMAIN ExceptClauses :
                 /\ IsInstance(kind, ExceptClauses[i].class)
                 /\ \A j \in 1..(i - 1) : ~IsInstance(kind, ExceptClauses[j].class)
  IN ExceptClauses[first].code

Returned(code, requested, opened, started, baseline, wrote, called) ==
  [code |-> code, requested |-> requested, opened |-> opened, started |-> started,
   baseline |-> baseline, wrote |-> wrote, called |-> called]

\* download_sheet(url, callback) when requests.get gives `get` and the browser
\* launcher gives `launched`: the code returned and what the call did.
download_sheet(url, get, launched) ==
  LET r == get_google_sheet_download_link(url) IN
  IF ~r.ok THEN Returned(-1, FALSE, None, FALSE, None, FALSE, FALSE)
  ELSE IF get.kind # "response"
    THEN Returned(handler_code(get.kind), TRUE, None, FALSE, None, FALSE, FALSE)
  ELSE IF needs_authentication(get)
    THEN IF open_browser(r.link, launched)
           THEN Returned(1, TRUE, r.link, TRUE, get_latest_xlsx(downloads), FALSE, FALSE)
           ELSE Returned(-2, TRUE, r.link, FALSE, get_latest_xlsx(downloads), FALSE, FALSE)
  ELSE IF get.status = 200
    THEN Returned(0, TRUE, None, FALSE, None, TRUE, TRUE)
  ELSE Returned(-3, TRUE, None, FALSE, None, FALSE, FALSE)

\* error_messages.get(res, 'Unknown error') in download_from_sheets.
error_message(res) ==
  CASE res = -1 -> "Invalid Google Sheets URL"
    [] res = -2 -> "Failed to open browser for authentication"
    [] res = -3 -> "HTTP error during download"
    [] res = -4 -> "Network error during download"
    [] res = -5 -> "Timeout during download"
    [] OTHER -> "Unknown error"

\* No export or import has run yet.
NoOp == [op |-> "none", ok |-> FALSE, msg |-> "", ps |-> [raised |-> FALSE, stdout |-> <<>>],
         file |-> MissingFile, from |-> "none", stamp |-> 0,
         pre_data |-> NoDataDir, pre_env |-> NoEnv, pre_user |-> <<>>]

(***************************************************************************)
(* SpecDownload: download_sheet calls, the watcher threads, and the user's *)
(* Downloads folder changing under them.                                   *)
(***************************************************************************)
NoCall == [url |-> <<>>, get |-> NoGet, launched |-> FALSE,
           ret |-> Returned(0, FALSE, None, FALSE, None, FALSE, FALSE),
           pre_watches |-> 0]

DownloadIdle ==
  /\ downloads = <<>>
  /\ clock = 0
  /\ staging = <<>>
  /\ watches = <<>>
  /\ callbacks = <<>>
  /\ dl = NoCall
  /\ calls = 0

ArchiveIdle ==
  /\ n8n_data = NoDataDir
  /\ env_file = NoEnv
  /\ outside = EmptyFiles
  /\ user_data = <<>>
  /\ exported_from = <<>>
  /\ last = NoOp
  /\ ops = 0

\* The receiver before main() has created the GUI and before any POST.
ReceiverIdle ==
  /\ flask = "rejects-mimetype"
  /\ gui_instance = FALSE
  /\ output_directory = <<>>
  /\ n8n_files = {}
  /\ out_files = {}
  /\ pending = <<>>
  /\ ui_log = <<>>
  /\ dialogs = <<>>
  /\ progress_label = ""
  /\ http = <<>>
  /\ handled = <<>>
  /\ picks = 0

\* No hand-off closure has run yet.
NoHandoff == [file |-> [dir |-> "", name |-> <<>>], outcome |-> "none",
              new_name |-> <<>>, source |-> <<>>, copied |-> FALSE, deleted |-> FALSE,
              test |-> "none", prod |-> "none", sent |-> <<>>]

\* The window as ServiceManagerGUI.__init__ builds it: both buttons enabled,
\* nothing processing, no download thread, an empty inbox.
GuiIdle ==
  /\ sheets = <<>>
  /\ download_btn = "normal"
  /\ local_file_btn = "normal"
  /\ processing = FALSE
  /\ progress_bar = FALSE
  /\ download_thread = 0
  /\ ran = 0
  /\ triggered = 0
  /\ handoff = NoHandoff
  /\ browses = 0

\* No export, import or container script under way; the three buttons enabled.
NoWorker == [kind |-> "none", at |-> "none", left |-> 0,
             ps |-> [raised |-> FALSE, stdout |-> <<>>], ok |-> FALSE]

ContainerIdle ==
  /\ container = FALSE
  /\ docker_btn = "normal"
  /\ export_btn = "normal"
  /\ import_btn = "normal"
  /\ worker = NoWorker
  /\ script = "none"
  /\ docker_status = "Status: Not Running"
  /\ timers = 1
  /\ presses = 0

InitDownload == ArchiveIdle /\ DownloadIdle /\ ReceiverIdle /\ GuiIdle /\ ContainerIdle

\* A call of the acquisition callback: by the direct download (0) or by watcher
\* `by`, with the file and (history) the time the file was created.
Called(by, file, born) == [by |-> by, file |-> file, born |-> born]

StagedFile(n) == [dir |-> "n8n-files/downloads", name |-> <<"sheet_", n, ".xlsx">>]
DownloadedFile(f) == [dir |-> "Downloads", name |-> f]

\* requests.get is reached only with a resolved link, the browser launcher only
\* on the fallback path: the outcomes the call does not consult are left out.
GetsConsulted(url) ==
  IF get_google_sheet_download_link(url).ok THEN GetOutcomes ELSE {NoGet}

LaunchesConsulted(url, get) ==
  IF download_sheet(url, get, TRUE).opened # None THEN BOOLEAN ELSE {FALSE}

\* One call download_sheet(url, callback): what it does to the staging folder,
\* the callback and the watcher threads.
DownloadSheetCall(url, get, launched) ==
       LET r == download_sheet(url, get, launched) IN
         /\ calls' = calls + 1
         \* sheet_{time.time()}.xlsx: a name no earlier call used
         /\ staging' = IF r.wrote THEN Put(staging, calls + 1, written_content(get))
                                  ELSE staging
         /\ callbacks' = IF r.called
                           THEN Append(callbacks, Called(0, StagedFile(calls + 1), 0))
                           ELSE callbacks
         /\ watches' = IF r.started
                         THEN Append(watches, [baseline |-> r.baseline, state |-> "polling",
                                               since |-> clock, polled |-> clock])
                         ELSE watches
         /\ dl' = [url |-> url, get |-> get, launched |-> launched, ret |-> r,
                   pre_watches |-> Len(watches)]
         /\ UNCHANGED <<downloads, clock>>

DownloadSheet ==
  /\ calls < MaxDownloads
  /\ \E url \in Urls : \E get \in GetsConsulted(url) :
     \E launched \in LaunchesConsulted(url, get) : DownloadSheetCall(url, get, launched)
  /\ UNCHANGED <<archiveVars, receiverVars, guiVars, containerVars>>

\* One iteration of the loop at sheet_downloader.py:103-114.
WatcherPoll(w) ==
  /\ watches[w].state = "polling"
  /\ LET current_latest == get_latest_xlsx(downloads) IN
       IF current_latest # watches[w].baseline /\ current_latest # None
         THEN /\ callbacks' = Append(callbacks, Called(w, DownloadedFile(current_latest),
                                                        downloads[current_latest].born))
              /\ watches' = [watches EXCEPT ![w].state = "found", ![w].polled = clock]
         ELSE /\ watches' = [watches EXCEPT ![w].polled = clock]
              /\ UNCHANGED callbacks
  /\ UNCHANGED <<downloads, clock, staging, dl, calls>>
  /\ UNCHANGED <<archiveVars, receiverVars, guiVars, containerVars>>

\* The timeout branch with its commented-out call restored: callback(None).
WatcherTimeout_calls_back(w) ==
  /\ watches[w].state = "polling"
  /\ watches' = [watches EXCEPT ![w].state = "timed out"]
  /\ callbacks' = Append(callbacks, Called(w, [dir |-> "", name |-> None], 0))
  /\ UNCHANGED <<downloads, clock, staging, dl, calls>>
  /\ UNCHANGED <<archiveVars, receiverVars, guiVars, containerVars>>

\* The loop condition fails: the timeout has elapsed.
WatcherTimeout(w) ==
  /\ watches[w].state = "polling"
  /\ watches' = [watches EXCEPT ![w].state = "timed out"]
  /\ UNCHANGED <<downloads, clock, staging, callbacks, dl, calls>>
  /\ UNCHANGED <<archiveVars, receiverVars, guiVars, containerVars>>

\* get_latest_xlsx raises (a file removed between glob and stat): the handler at 118.
WatcherError(w) ==
  /\ watches[w].state = "polling"
  /\ GlobXlsx(downloads) # {}
  /\ watches' = [watches EXCEPT ![w].state = "error"]
  /\ UNCHANGED <<downloads, clock, staging, callbacks, dl, calls>>
  /\ UNCHANGED <<archiveVars, receiverVars, guiVars, containerVars>>

\* The user's browser (or anything else) saves a new file into Downloads.
FileAppears(f) ==
  /\ clock < MaxClock
  /\ f \notin DOMAIN downloads
  /\ clock' = clock + 1
  /\ downloads' = Put(downloads, f, [mtime |-> clock + 1, born |-> clock + 1])
  /\ UNCHANGED <<staging, watches, callbacks, dl, calls>>
  /\ UNCHANGED <<archiveVars, receiverVars, guiVars, containerVars>>

\* An existing file is written again.
FileModified(f) ==
  /\ clock < MaxClock
  /\ f \in DOMAIN downloads
  /\ clock' = clock + 1
  /\ downloads' = [downloads EXCEPT ![f].mtime = clock + 1]
  /\ UNCHANGED <<staging, watches, callbacks, dl, calls>>
  /\ UNCHANGED <<archiveVars, receiverVars, guiVars, containerVars>>

FileRemoved(f) ==
  /\ f \in DOMAIN downloads
  /\ downloads' = [g \in DOMAIN downloads \ {f} |-> downloads[g]]
  /\ UNCHANGED <<clock, staging, watches, callbacks, dl, calls>>
  /\ UNCHANGED <<archiveVars, receiverVars, guiVars, containerVars>>

NextDownload ==
  \/ DownloadSheet
  \/ \E w \in DOMAIN watches : WatcherPoll(w)
  \/ \E w \in DOMAIN watches : WatcherTimeout(w)
  \/ \E w \in DOMAIN watches : WatcherError(w)
  \/ \E f \in DownloadNames : FileAppears(f)
  \/ \E f \in DownloadNames : FileModified(f)
  \/ \E f \in DownloadNames : FileRemoved(f)

SpecDownload == InitDownload /\ [][NextDownload]_vars

\* Some polling watcher reaches the end of its timeout.
WatcherEnds == \E w \in DOMAIN watches : WatcherTimeout(w)

\* A watcher thread keeps running, and its loop runs only while less than
\* `timeout` seconds have passed: a watcher that keeps polling reaches its timeout.
SpecDownloadFair == InitDownload /\ [][NextDownload]_vars /\ WF_vars(WatcherEnds)

(***************************************************************************)
(* SpecArchive: the user exports, empties the data directory, imports.     *)
(***************************************************************************)
InitArchive ==
  /\ n8n_data \in InitialDataDirs
  /\ env_file \in {NoEnv} \cup {EnvOf(b) : b \in Bytes}
  /\ outside = EmptyFiles
  /\ user_data = <<>>
  /\ exported_from = <<>>
  /\ last = NoOp
  /\ ops = 0
  /\ DownloadIdle
  /\ ReceiverIdle
  /\ GuiIdle
  /\ ContainerIdle

\* History of an operation: what it was given, what it returned, the state it found.
Did(op, r, ps, file, from, stamp) ==
  [op |-> op, ok |-> r.ok, msg |-> r.msg, ps |-> ps, file |-> file, from |-> from,
   stamp |-> stamp,
   pre_data |-> n8n_data, pre_env |-> env_file, pre_user |-> user_data]

Step == ops < MaxOps /\ ops' = ops + 1 /\ UNCHANGED <<downloadVars, receiverVars, guiVars, containerVars>>

Export ==
  /\ Step
  /\ \E ps \in PsOutputs, ts \in Timestamps, order \in Orderings(all_files(n8n_data)) :
    LET r == export_n8n_data(ps, ts, order) IN
      /\ user_data' = r.archives
      /\ exported_from' = IF r.ok THEN Put(exported_from, ts, n8n_data.files)
                                  ELSE exported_from
      /\ last' = Did("export", r, ps, MissingFile, "none", IF r.ok THEN ts ELSE 0)
      /\ UNCHANGED <<n8n_data, env_file, outside>>

\* The file dialog's choice: an archive of user-data, or any other file.
ImportExported ==
  /\ Step
  /\ \E ps \in PsOutputs, ts \in DOMAIN user_data :
    LET r == import_n8n_data(user_data[ts], ps) IN
      /\ n8n_data' = r.data
      /\ env_file' = r.env
      /\ outside' = r.outside
      /\ last' = Did("import", r, ps, user_data[ts], "user-data", ts)
      /\ UNCHANGED <<user_data, exported_from>>

ImportForeign ==
  /\ Step
  /\ \E ps \in PsOutputs, name \in DOMAIN ForeignFiles :
    LET r == import_n8n_data(ForeignFiles[name], ps) IN
      /\ n8n_data' = r.data
      /\ env_file' = r.env
      /\ outside' = r.outside
      /\ last' = Did("import", r, ps, ForeignFiles[name], name, 0)
      /\ UNCHANGED <<user_data, exported_from>>

\* The user empties the data directory (a fresh installation).
EmptyDataDir ==
  /\ Step
  /\ n8n_data # DirOf(EmptyFiles)
  /\ n8n_data' = DirOf(EmptyFiles)
  /\ last' = [NoOp EXCEPT !.op = "empty"]
  /\ UNCHANGED <<env_file, outside, user_data, exported_from>>

NextArchive == Export \/ ImportExported \/ ImportForeign \/ EmptyDataDir

\* SpecImport: the user imports the archives of SlipFiles, into data
\* directories of any content.
ImportSlip ==
  /\ Step
  /\ \E ps \in PsOutputs, name \in DOMAIN SlipFiles :
    LET r == import_n8n_data(SlipFiles[name], ps) IN
      /\ n8n_data' = r.data
      /\ env_file' = r.env
      /\ outside' = r.outside
      /\ last' = Did("import", r, ps, SlipFiles[name], name, 0)
      /\ UNCHANGED <<user_data, exported_from>>

NextImport == ImportSlip \/ EmptyDataDir

SpecImport == InitArchive /\ [][NextImport]_vars

\* SpecExport: the user exports while files of the data directory can be
\* locked, and user-data can be unwritable.
MaxExports == 2   \* operations of one run of SpecExport

ExportRaising ==
  /\ Step
  /\ ops < MaxExports
  /\ \E ps \in PsOutputs, ts \in Timestamps, order \in Orderings(all_files(n8n_data)),
        fault \in ExportFaults :
    LET r == export_n8n_data_raising(ps, ts, order, fault) IN
      /\ user_data' = r.archives
      /\ exported_from' = IF r.ok THEN Put(exported_from, ts, n8n_data.files)
                                  ELSE exported_from
      /\ last' = Did("export", r, ps, MissingFile, fault.stage, ts)
      /\ UNCHANGED <<n8n_data, env_file, outside>>

NextExport == ExportRaising \/ EmptyDataDir

SpecExport == InitArchive /\ [][NextExport]_vars

SpecArchive == InitArchive /\ [][NextArchive]_vars

(***************************************************************************)
(* The result receiver: POST /callback/results (handle_results) and the    *)
(* UI's handling of the body (handle_n8n_callback, copy_result_files).     *)
(* Text is a sequence of tokens; a file name is the sequence of its parts. *)
(***************************************************************************)
MaxPosts == 2   \* POSTs to /callback/results in one run
MaxPicks == 1   \* selections of an output directory in one run

FilesPrefix == "/files/"

ResultNames ==
  {<<"a.docx">>, <<FilesPrefix, "a.docx">>, <<FilesPrefix, "sub/", "b.docx">>}

ResultLists ==
  {<<>>, <<<<"a.docx">>>>, <<<<FilesPrefix, "a.docx">>>>,
   <<<<"a.docx">>, <<FilesPrefix, "sub/", "b.docx">>>>}

\* The JSON values a request carries: objects with or without the fields error
\* and files, and null.
JsonObject(has_error, error, has_files, files) ==
  [kind |-> "object", has_error |-> has_error, error |-> error,
   has_files |-> has_files, files |-> files]

JsonNull == [kind |-> "null", has_error |-> FALSE, error |-> "",
             has_files |-> FALSE, files |-> <<>>]

JsonValues ==
  {JsonObject(TRUE, "x", FALSE, <<>>), JsonObject(FALSE, "", FALSE, <<>>), JsonNull}
  \cup {JsonObject(FALSE, "", TRUE, l) : l \in ResultLists}
  \cup {JsonObject(TRUE, "x", TRUE, <<<<"a.docx">>>>)}

\* A request: its Content-Type, whether its body parses as JSON, and the value.
Request(ctype, parses, value) == [ctype |-> ctype, parses |-> parses, value |-> value]

Requests ==
  {Request("application/json", TRUE, v) : v \in JsonValues}
  \cup {Request("application/json", FALSE, JsonNull),
        Request("text/plain", FALSE, JsonNull),
        Request("text/plain", TRUE, JsonObject(FALSE, "", TRUE, <<<<"a.docx">>>>))}

\* The two behaviours of request.get_json() on a non-JSON mimetype: Flask from
\* 2.1 on rejects the request (415), an older one returns None.
FlaskBuilds == {"rejects-mimetype", "ignores-mimetype"}

Json(raised, status, value) == [raised |-> raised, status |-> status, value |-> value]

get_json(build, req) ==
  IF req.ctype # "application/json"
    THEN IF build = "rejects-mimetype" THEN Json(TRUE, 415, JsonNull)
                                       ELSE Json(FALSE, 200, JsonNull)
  ELSE IF ~req.parses THEN Json(TRUE, 400, JsonNull)
  ELSE Json(FALSE, 200, req.value)

Answer(status, body, relayed, data) ==
  [status |-> status, body |-> body, relayed |-> relayed, data |-> data]

Received == "{status: received}"

handle_results(build, gui, req) ==
  LET data == get_json(build, req) IN
    IF data.raised THEN Answer(data.status, "error page", FALSE, JsonNull)
    ELSE Answer(200, Received, gui, data.value)

Line(level, text) == [level |-> level, text |-> text]
Box(kind, text) == [kind |-> kind, text |-> text]

\* len(files) as the f-string prints it.
Count(files) == ToString(Len(files))

RECURSIVE Flatten(_)
Flatten(ss) == IF ss = <<>> THEN <<>> ELSE Head(ss) \o Flatten(Tail(ss))

\* "\n".join([f"  - {f}" for f in files])
file_list(files) ==
  Flatten([i \in DOMAIN files |->
             (IF i = 1 THEN <<>> ELSE <<"\n">>) \o <<"  - ">> \o files[i]])

strip_files_prefix(name) == IF name # <<>> /\ name[1] = FilesPrefix THEN Tail(name) ELSE name

SourceName(rel) == <<rel[Len(rel)]>>

Copying(lines, copied, out) == [lines |-> lines, copied |-> copied, out |-> out]

RECURSIVE CopyEach(_, _, _, _, _)
CopyEach(files, acc, outdir, present, writable) ==
  IF files = <<>> THEN acc
  ELSE
    LET rel    == strip_files_prefix(Head(files))
        source == <<"n8n-files/">> \o rel
        dest   == outdir \o <<"/">> \o SourceName(rel)
        next   ==
          IF rel \in present
            THEN IF writable
                   THEN Copying(Append(acc.lines,
                                       Line("INFO", <<"Copied: ">> \o SourceName(rel)
                                                      \o <<" -> ">> \o dest)),
                                Append(acc.copied, SourceName(rel)),
                                acc.out \cup {SourceName(rel)})
                   ELSE Copying(Append(acc.lines,
                                       Line("ERROR", <<"Error copying ">> \o rel
                                                       \o <<": ", "PermissionError">>)),
                                acc.copied, acc.out)
            ELSE Copying(Append(acc.lines, Line("WARN", <<"File not found: ">> \o source)),
                         acc.copied, acc.out)
    IN CopyEach(Tail(files), next, outdir, present, writable)

copy_result_files(files, outdir, out, present, writable) ==
  IF outdir = <<>> THEN Copying(<<>>, <<>>, out)
  ELSE
    LET each == CopyEach(files, Copying(<<>>, <<>>, out), outdir, present, writable) IN
      IF each.copied # <<>>
        THEN Copying(Append(each.lines,
                            Line("INFO", <<"Successfully copied ", Count(each.copied),
                                           " file(s) to output directory:", "\n">>
                                         \o file_list(each.copied))),
                     each.copied, each.out)
        ELSE each

Shown(lines, boxes, label, out, raised) ==
  [lines |-> lines, boxes |-> boxes, label |-> label, out |-> out, raised |-> raised]

SuccessLine(files) ==
  Line("INFO", <<"Workflow completed successfully! ", "Generated ", Count(files), " file(s)">>)

SuccessBox(files) ==
  Box("showinfo", <<"Workflow completed!", "\n", "Generated ", Count(files), " file(s)">>)

ErrorLine(msg) == Line("ERROR", <<"n8n workflow error: ", msg>>)

ErrorBox(msg) == Box("showerror", <<"n8n workflow failed:", "\n", msg>>)

files_branch(data, outdir, out, present, writable) ==
  LET files == data.files
      shown ==
        IF outdir # <<>> /\ files # <<>>
          THEN copy_result_files(files, outdir, out, present, writable)
          ELSE Copying(<<Line("INFO", <<"Generated files:", "\n">> \o file_list(files))>>
                         \o (IF outdir = <<>>
                               THEN <<Line("WARN",
                                      <<"No output directory set - files remain in n8n-files/">>)>>
                               ELSE <<>>),
                       <<>>, out)
  IN Shown(<<SuccessLine(files)>> \o shown.lines, <<SuccessBox(files)>>,
           "Workflow completed successfully", shown.out, FALSE)

error_branch(data, out) ==
  Shown(<<ErrorLine(data.error)>>, <<ErrorBox(data.error)>>, "Workflow failed", out, FALSE)

unknown_branch(data, out) ==
  Shown(<<Line("WARN", <<"Received callback with unknown format. Data: ", "{}">>)>>,
        <<>>, "Unknown response", out, FALSE)

\* handle_in_main_thread with the two membership tests in the other order.
handle_in_main_thread_files_first(data, label, outdir, out, present, writable) ==
  IF data.kind # "object" THEN Shown(<<>>, <<>>, label, out, TRUE)
  ELSE IF data.has_files THEN files_branch(data, outdir, out, present, writable)
  ELSE IF data.has_error THEN error_branch(data, out)
  ELSE unknown_branch(data, out)

\* The closure handle_n8n_callback schedules. On None the test '"error" in data'
\* raises TypeError, which Tk reports without any line or box.
handle_in_main_thread(data, label, outdir, out, present, writable) ==
  IF data.kind # "object" THEN Shown(<<>>, <<>>, label, out, TRUE)
  ELSE IF data.has_error THEN error_branch(data, out)
  ELSE IF data.has_files THEN files_branch(data, outdir, out, present, writable)
  ELSE unknown_branch(data, out)

(***************************************************************************)
(* SpecReceiver: main() starts the server, then creates the GUI; POSTs      *)
(* arrive at any time; the Tk main loop runs the scheduled closures.        *)
(***************************************************************************)
OutputDirs == {<<"out">>}

PresentSets == {{}, {<<"a.docx">>}, {<<"a.docx">>, <<"sub/", "b.docx">>}}

InitReceiver ==
  /\ ArchiveIdle
  /\ DownloadIdle
  /\ flask \in FlaskBuilds
  /\ gui_instance = FALSE
  /\ output_directory = <<>>
  /\ n8n_files \in PresentSets
  /\ out_files = {}
  /\ pending = <<>>
  /\ ui_log = <<>>
  /\ dialogs = <<>>
  /\ progress_label = ""
  /\ http = <<>>
  /\ handled = <<>>
  /\ picks = 0
  /\ GuiIdle
  /\ ContainerIdle

CreateGUI ==
  /\ ~gui_instance
  /\ gui_instance' = TRUE
  /\ output_directory' = <<>>
  /\ UNCHANGED <<flask, n8n_files, out_files, pending, ui_log, dialogs,
                 progress_label, http, handled, picks>>
  /\ UNCHANGED <<archiveVars, downloadVars, guiVars, containerVars>>

SelectOutputDirectory ==
  /\ gui_instance
  /\ picks < MaxPicks
  /\ \E d \in OutputDirs :
       /\ output_directory' = d
       /\ ui_log' = Append(ui_log, Line("INFO", <<"Output directory set to: ">> \o d))
  /\ picks' = picks + 1
  /\ UNCHANGED <<flask, gui_instance, n8n_files, out_files, pending, dialogs,
                 progress_label, http, handled>>
  /\ UNCHANGED <<archiveVars, downloadVars, guiVars, containerVars>>

PostResults ==
  /\ Len(http) < MaxPosts
  /\ \E req \in Requests :
       LET a == handle_results(flask, gui_instance, req) IN
         /\ http' = Append(http, [req |-> req, status |-> a.status, body |-> a.body,
                                  relayed |-> a.relayed, gui |-> gui_instance])
         /\ pending' = IF a.relayed THEN Append(pending, a.data) ELSE pending
  /\ UNCHANGED <<flask, gui_instance, output_directory, n8n_files, out_files, ui_log,
                 dialogs, progress_label, handled, picks>>
  /\ UNCHANGED <<archiveVars, downloadVars, guiVars, containerVars>>

HandleInMainThread ==
  /\ gui_instance
  /\ pending # <<>>
  /\ \E writable \in BOOLEAN :
       LET r == handle_in_main_thread(Head(pending), progress_label, output_directory,
                                      out_files, n8n_files, writable) IN
         /\ ui_log' = ui_log \o r.lines
         /\ dialogs' = dialogs \o r.boxes
         /\ progress_label' = r.label
         /\ out_files' = r.out
         /\ handled' = Append(handled, [data |-> Head(pending), outdir |-> output_directory,
                                        lines |-> r.lines, boxes |-> r.boxes,
                                        raised |-> r.raised])
  /\ pending' = Tail(pending)
  /\ UNCHANGED <<flask, gui_instance, output_directory, n8n_files, http, picks>>
  /\ processing' = FALSE
  /\ progress_bar' = FALSE
  /\ UNCHANGED <<sheets, download_btn, local_file_btn, download_thread, ran,
                 triggered, handoff, browses>>
  /\ UNCHANGED <<archiveVars, downloadVars, containerVars>>

NextReceiver == CreateGUI \/ SelectOutputDirectory \/ PostResults \/ HandleInMainThread

SpecReceiver == InitReceiver /\ [][NextReceiver]_vars

(***************************************************************************)
(* The UI's acquisition: download_from_sheets, select_local_file and the   *)
(* hand-off closure of get_file_callback (callback_in_main_thread).        *)
(* Every call of the acquisition callback schedules one closure with       *)
(* root.after(0, ...): the closures not yet run are the calls after `ran`. *)
(***************************************************************************)
MaxBrowses == 1   \* files selected with 'Browse & Process' in one run

InboxDir == "n8n-files/sheets"
SheetFile(name) == [dir |-> InboxDir, name |-> name]

\* The bytes of a file of the Downloads folder (fixed by its name).
DownloadBytes(name) == IF name[1] = "a" THEN <<1>> ELSE <<2>>

FileExists(file) ==
  CASE file.dir = "Downloads" -> file.name \in DOMAIN downloads
    [] file.dir = "n8n-files/downloads" -> file.name[2] \in DOMAIN staging
    [] file.dir = InboxDir -> file.name \in DOMAIN sheets
    [] OTHER -> FALSE

FileBytes(file) ==
  CASE ~FileExists(file) -> Empty
    [] file.dir = "Downloads" -> DownloadBytes(file.name)
    [] file.dir = "n8n-files/downloads" -> staging[file.name[2]]
    [] OTHER -> sheets[file.name]

Without(f, k) == [x \in DOMAIN f \ {k} |-> f[x]]

\* What requests.post gives: a response with a status code, or a
\* requests.RequestException (connection refused, timed out).
Replied(status) == [kind |-> "response", status |-> status]
Failed(kind) == [kind |-> kind, status |-> 0]
NotSent == Failed("not sent")
PostOutcomes == {Replied(200), Replied(500), Failed("timeout")}

\* f"sheet_{int(time.time())}.xlsx"
new_name(now) == <<"sheet_", now, ".xlsx">>

HandedOff(outcome, name, copied, deleted, test, prod, busy, label) ==
  [outcome |-> outcome, new_name |-> name, copied |-> copied, deleted |-> deleted,
   test |-> test, prod |-> prod, busy |-> busy, label |-> label]

\* A plausible slip: the original removed before the copy is known to be made.
unlink_original_always(file, copied) == file.dir # InboxDir

\* if file.parent != destination.parent: file.unlink(), reached after copy2 returned
unlink_original(file, copied) == copied /\ file.dir # InboxDir

\* The two requests.post calls inside one try: an exception of the first skips
\* the second; the first one's response is dropped.
trigger(test, prod) ==
  IF test.kind # "response" THEN "cannot reach n8n"
  ELSE IF prod.kind # "response" THEN "cannot reach n8n"
  ELSE IF prod.status = 200 THEN "triggered"
  ELSE "webhook failed"

\* callback_in_main_thread after it has enabled the buttons, for a file that is
\* not None: `exists` and `copyOk` decide whether shutil.copy2 succeeds.
callback_in_main_thread(file, exists, now, copyOk, test, prod) ==
  LET name   == new_name(now)
      same   == file = SheetFile(name)
      copied == exists /\ ~same /\ copyOk
  IN
  IF file.name[Len(file.name)] # ".xlsx"
    THEN HandedOff("invalid type", <<>>, FALSE, FALSE, NotSent, NotSent, FALSE,
                   "Error: Invalid file type")
  ELSE IF ~copied
    THEN HandedOff("error moving", name, FALSE, unlink_original(file, FALSE),
                   NotSent, NotSent, FALSE, "Error processing file")
  ELSE LET t == trigger(test, prod)
           p == IF test.kind = "response" THEN prod ELSE NotSent
       IN HandedOff(t, name, TRUE, unlink_original(file, TRUE), test, p, t = "triggered",
                    CASE t = "triggered" -> "Processing file..."
                      [] t = "webhook failed" -> "Error: Webhook failed"
                      [] OTHER -> "Error: Cannot reach n8n")

(***************************************************************************)
(* SpecGui: the user presses the two acquisition buttons while they are    *)
(* enabled; watcher threads poll; the Tk main loop runs the closures.      *)
(***************************************************************************)
GuiUrls == {<<LinkPrefix, "1AbC", "/edit#gid=0">>, <<"https://example.com/", "1AbC">>}

GuiGets ==
  {Response(200, XlsxType, <<1>>), Response(401, HtmlType, <<1>>),
   Response(404, XlsxType, <<1>>), Raised("timeout"), Raised("error")}

GuiGetsConsulted(url) == IF GetsConsulted(url) = {NoGet} THEN {NoGet} ELSE GuiGets

\* f"Error: {error_messages.get(res, 'Unknown error')}"
error_label(res) ==
  CASE res = -1 -> "Error: Invalid Google Sheets URL"
    [] res = -2 -> "Error: Failed to open browser for authentication"
    [] res = -3 -> "Error: HTTP error during download"
    [] res = -4 -> "Error: Network error during download"
    [] res = -5 -> "Error: Timeout during download"
    [] OTHER -> "Error: Unknown error"

InitGui ==
  /\ ArchiveIdle
  /\ DownloadIdle
  /\ ReceiverIdle
  /\ GuiIdle
  /\ ContainerIdle

\* The 'Download & Process' button (with a non-empty URL in the entry).
DownloadFromSheets ==
  /\ download_btn = "normal"
  /\ calls < MaxDownloads
  /\ \E url \in GuiUrls : \E get \in GuiGetsConsulted(url) :
     \E launched \in LaunchesConsulted(url, get) :
       LET r == download_sheet(url, get, launched) IN
         /\ DownloadSheetCall(url, get, launched)
         /\ download_thread' = IF r.started THEN Len(watches) + 1 ELSE 0
         /\ IF r.code < 0
              THEN /\ progress_label' = error_label(r.code)
                   /\ progress_bar' = FALSE
                   /\ download_btn' = "normal"
                   /\ local_file_btn' = "normal"
              ELSE /\ progress_label' = IF r.code = 1 THEN "Waiting for download..."
                                                      ELSE progress_label
                   /\ progress_bar' = IF r.code = 1 THEN TRUE ELSE progress_bar
                   /\ download_btn' = "disabled"
                   /\ local_file_btn' = "disabled"
  /\ UNCHANGED <<sheets, processing, ran, triggered, handoff, browses>>
  /\ UNCHANGED <<flask, gui_instance, output_directory, n8n_files, out_files, pending,
                 ui_log, dialogs, http, handled, picks>>
  /\ UNCHANGED <<archiveVars, containerVars>>

\* The files the file dialog can return: the ones that exist in the Downloads
\* folder and in the inbox.
Selectable ==
  {DownloadedFile(f) : f \in DOMAIN downloads} \cup {SheetFile(n) : n \in DOMAIN sheets}

\* The 'Browse & Process' button, a file chosen in the dialog.
SelectLocalFile ==
  /\ local_file_btn = "normal"
  /\ browses < MaxBrowses
  /\ \E file \in Selectable : callbacks' = Append(callbacks, Called(-1, file, 0))
  /\ browses' = browses + 1
  /\ UNCHANGED <<downloads, clock, staging, watches, dl, calls>>
  /\ UNCHANGED <<sheets, download_btn, local_file_btn, processing, progress_bar,
                 download_thread, ran, triggered, handoff>>
  /\ UNCHANGED <<archiveVars, receiverVars, containerVars>>

\* The Tk main loop runs the next scheduled closure callback_in_main_thread.
RunClosure ==
  /\ ran < Len(callbacks)
  /\ LET file == callbacks[ran + 1].file IN
     \E copyOk \in BOOLEAN : \E test \in PostOutcomes : \E prod \in PostOutcomes :
       LET r == callback_in_main_thread(file, FileExists(file), clock, copyOk, test, prod) IN
         /\ sheets' = IF r.copied THEN Put(sheets, r.new_name, FileBytes(file)) ELSE sheets
         /\ downloads' = IF r.deleted /\ file.dir = "Downloads"
                           THEN Without(downloads, file.name) ELSE downloads
         /\ staging' = IF r.deleted /\ file.dir = "n8n-files/downloads"
                         THEN Without(staging, file.name[2]) ELSE staging
         /\ processing' = IF r.copied THEN r.busy ELSE processing
         /\ progress_bar' = r.busy
         /\ progress_label' = r.label
         /\ triggered' = IF r.outcome = "triggered" THEN triggered + 1 ELSE triggered
         /\ handoff' = [file |-> file, outcome |-> r.outcome, new_name |-> r.new_name,
                        source |-> FileBytes(file), copied |-> r.copied,
                        deleted |-> r.deleted, test |-> r.test.kind, prod |-> r.prod.kind,
                        sent |-> (IF r.test.kind = "not sent" THEN <<>> ELSE <<"webhook-test">>)
                                 \o (IF r.prod.kind = "not sent" THEN <<>> ELSE <<"webhook">>)]
  /\ download_btn' = "normal"
  /\ local_file_btn' = "normal"
  /\ ran' = ran + 1
  /\ UNCHANGED <<clock, watches, callbacks, dl, calls, download_thread, browses>>
  /\ UNCHANGED <<flask, gui_instance, output_directory, n8n_files, out_files, pending,
                 ui_log, dialogs, http, handled, picks>>
  /\ UNCHANGED <<archiveVars, containerVars>>

NextGui ==
  \/ DownloadFromSheets
  \/ SelectLocalFile
  \/ RunClosure
  \/ \E w \in DOMAIN watches : WatcherPoll(w)
  \/ \E w \in DOMAIN watches : WatcherTimeout(w)
  \/ \E w \in DOMAIN watches : WatcherError(w)
  \/ \E f \in DownloadNames : FileAppears(f)

SpecGui == InitGui /\ [][NextGui]_vars

\* The Tk main loop keeps running scheduled closures, and a watcher that keeps
\* polling reaches its timeout (the loop runs while less than 300 s have passed).
SpecGuiFair ==
  /\ InitGui
  /\ [][NextGui]_vars
  /\ WF_vars(RunClosure)
  /\ WF_vars(WatcherEnds)

(***************************************************************************)
(* SpecContainer: the 'Start/Stop Container', 'Export n8n Data' and        *)
(* 'Import n8n Data' buttons. Each handler starts a daemon thread; the     *)
(* threads run beside each other and beside the Tk main loop, so every     *)
(* step of a thread is an action of its own.                               *)
(***************************************************************************)
MaxPresses == 3   \* presses of the three buttons in one run
MaxEntries == 2   \* files an export reads or an import writes

\* `docker ps --format {{.Names}}` as the running docker daemon answers it.
docker_ps(running) ==
  [raised |-> FALSE, stdout |-> IF running THEN ContainerName \o <<"\n">> ELSE <<>>]

\* What a subprocess.run of `docker ps` can give: the listing, or an exception
\* (the 5 s timeout, docker not found).
PsResults(running) == {docker_ps(running), [raised |-> TRUE, stdout |-> <<>>]}

\* check_docker_status: the status label for a docker ps result. Whatever the
\* result, the function ends by scheduling itself again after 3000 ms.
check_docker_status(ps) ==
  IF ps.raised THEN "Status: Error"
  ELSE IF Contains(ps.stdout, ContainerName) THEN "Status: Running"
  ELSE "Status: Not Running"

\* The acquisition part of the window, which these handlers leave alone.
guiRest == <<sheets, download_btn, local_file_btn, processing, download_thread,
             ran, triggered, handoff, browses>>

\* ServiceManagerGUI.__init__ ends with a call of check_docker_status.
InitContainer ==
  /\ ArchiveIdle
  /\ DownloadIdle
  /\ ReceiverIdle
  /\ GuiIdle
  /\ container \in BOOLEAN
  /\ docker_btn = "normal"
  /\ export_btn = "normal"
  /\ import_btn = "normal"
  /\ worker = NoWorker
  /\ script = "none"
  /\ docker_status \in {check_docker_status(ps) : ps \in PsResults(container)}
  /\ timers = 1
  /\ presses = 0

Press ==
  /\ presses < MaxPresses
  /\ presses' = presses + 1
  /\ UNCHANGED <<archiveVars, downloadVars, receiverVars, guiRest>>

\* A check_docker_status timer fires: the label is set and the timer set again.
CheckDockerStatus ==
  /\ timers > 0
  /\ \E ps \in PsResults(container) : docker_status' = check_docker_status(ps)
  /\ timers' = timers - 1 + 1
  /\ UNCHANGED <<container, docker_btn, export_btn, import_btn, worker, script, presses>>
  /\ UNCHANGED <<archiveVars, downloadVars, receiverVars, guiVars>>

\* toggle_docker: the button is disabled, docker ps is read and the start or
\* the stop script is run in a thread. Export and import are not consulted.
ToggleDocker ==
  /\ Press
  /\ docker_btn = "normal"
  /\ \E ps \in PsResults(container) :
       IF ps.raised
         THEN /\ progress_bar' = FALSE
              /\ UNCHANGED <<docker_btn, script>>
         ELSE /\ docker_btn' = "disabled"
              /\ progress_bar' = TRUE
              /\ script' = IF Contains(ps.stdout, ContainerName) THEN "stop" ELSE "start"
  /\ UNCHANGED <<container, export_btn, import_btn, worker, docker_status, timers>>

\* Where the thread is after subprocess.run: root.after(0, after_...) is
\* scheduled when the script has exited; when subprocess.run raises (the
\* script is missing or not executable) the thread ends with the exception.
ScriptEnds(outcome) == IF outcome = "raised" THEN "died" ELSE "after"

\* start_container / stop_container: the script runs.
ScriptRuns ==
  /\ script \in {"start", "stop"}
  /\ \E outcome \in {"zero", "non-zero", "raised"} :
       /\ container' = IF outcome = "zero" THEN script = "start" ELSE container
       /\ script' = ScriptEnds(outcome)
  /\ UNCHANGED <<docker_btn, export_btn, import_btn, worker, docker_status, timers, presses>>
  /\ UNCHANGED <<archiveVars, downloadVars, receiverVars, guiVars>>

\* after_start / after_stop end with a call of check_docker_status, which
\* schedules a timer of its own.
timers_after_toggle(n) == n + 1

\* after_start / after_stop in the Tk main loop.
AfterToggle ==
  /\ script = "after"
  /\ script' = "none"
  /\ progress_bar' = FALSE
  /\ docker_btn' = "normal"
  /\ \E ps \in PsResults(container) : docker_status' = check_docker_status(ps)
  /\ timers' = timers_after_toggle(timers)
  /\ UNCHANGED <<container, export_btn, import_btn, worker, presses>>
  /\ UNCHANGED <<archiveVars, downloadVars, receiverVars, guiRest>>

\* export_n8n_data_handler / import_n8n_data_handler (with a file chosen): both
\* buttons are disabled and the thread is started. The container button and
\* the container are not consulted.
StartWorker(kind) ==
  /\ Press
  /\ export_btn' = "disabled"
  /\ import_btn' = "disabled"
  /\ progress_bar' = TRUE
  /\ worker' = [NoWorker EXCEPT !.kind = kind, !.at = "check"]
  /\ UNCHANGED <<container, docker_btn, script, docker_status, timers>>

ExportHandler ==
  /\ export_btn = "normal"
  /\ StartWorker("export")

ImportHandler ==
  /\ import_btn = "normal"
  /\ StartWorker("import")

\* The thread's first step: `if is_docker_running(): return False, ...`, then
\* the early returns (no data directory, nothing to export, not a zip file),
\* then the loop over n files.
WorkerChecks ==
  /\ worker.at = "check"
  /\ \E ps \in PsResults(container), usable \in BOOLEAN, n \in 1..MaxEntries :
       worker' = IF is_docker_running(ps) \/ ~usable
                   THEN [worker EXCEPT !.at = "returned", !.ps = ps]
                   ELSE [worker EXCEPT !.at = "working", !.ps = ps, !.left = n]
  /\ UNCHANGED <<container, docker_btn, export_btn, import_btn, script,
                 docker_status, timers, presses>>
  /\ UNCHANGED <<archiveVars, downloadVars, receiverVars, guiVars>>

\* One file of the loop: export reads it from the data directory, import writes
\* it there. A file the running container holds locked raises PermissionError.
WorkerCopies ==
  /\ worker.at = "working"
  /\ worker.left > 0
  /\ \E locked \in {FALSE, container} :
       worker' = IF locked THEN [worker EXCEPT !.at = "returned"]
                           ELSE [worker EXCEPT !.left = @ - 1]
  /\ UNCHANGED <<container, docker_btn, export_btn, import_btn, script,
                 docker_status, timers, presses>>
  /\ UNCHANGED <<archiveVars, downloadVars, receiverVars, guiVars>>

WorkerReturns ==
  /\ worker.at = "working"
  /\ worker.left = 0
  /\ worker' = [worker EXCEPT !.at = "returned", !.ok = TRUE]
  /\ UNCHANGED <<container, docker_btn, export_btn, import_btn, script,
                 docker_status, timers, presses>>
  /\ UNCHANGED <<archiveVars, downloadVars, receiverVars, guiVars>>

\* after_export / after_import in the Tk main loop.
AfterWorker ==
  /\ worker.at = "returned"
  /\ worker' = [worker EXCEPT !.at = "none"]
  /\ progress_bar' = FALSE
  /\ export_btn' = "normal"
  /\ import_btn' = "normal"
  /\ UNCHANGED <<container, docker_btn, script, docker_status, timers, presses>>
  /\ UNCHANGED <<archiveVars, downloadVars, receiverVars, guiRest>>

NextContainer ==
  \/ CheckDockerStatus
  \/ ToggleDocker
  \/ ScriptRuns
  \/ AfterToggle
  \/ ExportHandler
  \/ ImportHandler
  \/ WorkerChecks
  \/ WorkerCopies
  \/ WorkerReturns
  \/ AfterWorker

SpecContainer == InitContainer /\ [][NextContainer]_vars

\* The threads run on, and the Tk main loop runs what root.after scheduled.
SpecContainerFair ==
  /\ InitContainer
  /\ [][NextContainer]_vars
  /\ WF_vars(ScriptRuns)
  /\ WF_vars(AfterToggle)

(***************************************************************************)
(* Claims about export / import (checked under SpecArchive)                *)
(***************************************************************************)
\* The process listing names the container: the text n8n-custom occurs in it.
ListingHasContainer(ps) ==
  /\ ~ps.raised
  /\ \E i \in 1..(Len(ps.stdout) - 1) : ps.stdout[i] = "n8n" /\ ps.stdout[i + 1] = "-custom"

ExportableDir(d) ==
  d.exists /\ \E p \in DOMAIN d.files : p[Len(p)] = "db" /\ Len(p) = 1

\* C1: whenever the process listing contains the container name when the
\* operation checks it, export_n8n_data returns failure and creates no archive,
\* and import_n8n_data returns failure and writes nothing under the data
\* directory nor the environment file.
C1_RefusesWhileRunning ==
  (last.op \in {"export", "import"} /\ ListingHasContainer(last.ps)) =>
     /\ ~last.ok
     /\ user_data = last.pre_user
     /\ n8n_data = last.pre_data
     /\ env_file = last.pre_env

\* C1's case: an export of a directory that has files to export, refused because
\* the listing names the container (here as part of a longer name).
C1_Witness ==
  /\ last.op = "export"
  /\ last.ps.stdout = <<"n8n", "-custom", "-old", "\n">>
  /\ ExportableDir(n8n_data)
  /\ last.msg = "Cannot export while n8n container is running"
  /\ user_data = <<>>

\* The files a round trip is to bring back: all but those named .first_run_done
\* and those with a path component `nodes`.
KeptFiles(fs) ==
  LET keep == {p \in DOMAIN fs :
                 /\ p[Len(p)] # ".first_run_done"
                 /\ \A i \in 1..Len(p) : p[i] # "nodes"}
  IN [p \in keep |-> fs[p]]

\* The last operation was a successful import, into an empty data directory, of
\* an archive export_n8n_data wrote.
RoundTripDone ==
  /\ last.op = "import"
  /\ last.ok
  /\ last.from = "user-data"
  /\ DOMAIN last.pre_data.files = {}
  /\ last.pre_data.dirs = {}

\* C2 (as stated): export followed by import into an empty data directory gives
\* exactly the original directory's file paths and bytes.
C2_RoundTripExact ==
  RoundTripDone => n8n_data.files = exported_from[last.stamp]

\* C2 (amended): export followed by import into an empty data directory gives
\* exactly the original directory's file paths and bytes, except the files named
\* .first_run_done and the files with a path component `nodes`, which are absent.
C2_RoundTripKept ==
  RoundTripDone => n8n_data.files = KeptFiles(exported_from[last.stamp])

\* C2's case: a round trip of a directory holding a file that is kept and one that
\* is skipped.
C2_Witness ==
  /\ RoundTripDone
  /\ DOMAIN n8n_data.files # {}
  /\ DOMAIN n8n_data.files # DOMAIN exported_from[last.stamp]

\* Not a well-formed zip archive: a missing path, a file without a zip end
\* record, or a zip whose central directory cannot be read.
NotWellFormedZip(f) == f.kind # "zip" \/ ~f.dirOk

CallsBy(cbs, w) == SelectSeq(cbs, LAMBDA c : c.by = w)

\* The newest .xlsx file of a folder, stated on the folder alone.
NewestXlsx(folder, f) ==
  /\ f \in DOMAIN folder
  /\ f[2] = ".xlsx"
  /\ \A g \in DOMAIN folder : g[2] = ".xlsx" => folder[g].mtime <= folder[f].mtime

HtmlOrJson(ctype) ==
  \E i \in DOMAIN ctype : ctype[i] \in {"text/html", "application/json"}

\* The export URL of a spreadsheet link.
IsExportUrl(u) == u # None /\ u[1] = LinkPrefix /\ u[Len(u)] = ExportSuffix /\ Len(u) >= 3

AuthWall(get) ==
  /\ get.kind = "response"
  /\ get.status = 401 \/ (get.status = 200 /\ HtmlOrJson(get.ctype))

\* A watcher was started by the last call and none else.
StartedOneWatch == dl.ret.started /\ Len(watches) = dl.pre_watches + 1
StartedNoWatch == ~dl.ret.started /\ Len(watches) = dl.pre_watches

HasSheetLink(url) ==
  \E i \in DOMAIN url : url[i] = LinkPrefix /\ i < Len(url) /\ url[i + 1] \in IdTokens

\* C7: for an input in which the spreadsheet-link pattern does not match,
\* download_sheet returns -1 without an HTTP request, a browser, a watcher or a
\* call of the callback.
C7_InvalidUrl ==
  (calls > 0 /\ ~HasSheetLink(dl.url)) =>
     /\ dl.ret.code = -1
     /\ ~dl.ret.requested /\ dl.get = NoGet
     /\ dl.ret.opened = None
     /\ StartedNoWatch
     /\ ~dl.ret.called /\ ~dl.ret.wrote

\* C7's case: the pattern's prefix with no document id after it.
C7_Witness ==
  /\ calls > 0
  /\ dl.url = <<LinkPrefix, "/edit">>
  /\ dl.ret.code = -1

\* The call took the authentication-fallback path (it went for the browser).
TookFallback == dl.ret.opened # None

\* C10 (as stated): only a 401 response or a 200 response with an HTML/JSON
\* content type takes the fallback path; every other non-200 status is reported
\* as HTTP error (-3), with no browser, watcher or callback.
C10_OnlyAuthWallFallsBack ==
  /\ TookFallback => AuthWall(dl.get)
  /\ (dl.get.kind = "response" /\ dl.get.status \notin {200, 401}) =>
        /\ dl.ret.code = -3
        /\ ~TookFallback /\ StartedNoWatch /\ ~dl.ret.called

\* C10's failing case: a 404 answered with an HTML page is not reported as HTTP
\* error: the browser is opened on the export URL and a watcher is started.
C10_Witness ==
  /\ dl.get = Response(404, HtmlType, <<1>>)
  /\ dl.launched
  /\ dl.ret.code = 1
  /\ IsExportUrl(dl.ret.opened)
  /\ Len(watches) = 1

(***************************************************************************)
(* Claims about the result receiver (checked under SpecReceiver)           *)
(***************************************************************************)
\* Some line the handling added carries the text.
LineShows(h, text) == \E i \in DOMAIN h.lines : Contains(h.lines[i].text, text)

ReportsSuccess(h, n) ==
  /\ \E i \in DOMAIN h.lines :
       h.lines[i].level = "INFO" /\ Contains(h.lines[i].text, <<"Generated ", n, " file(s)">>)
  /\ \E i \in DOMAIN h.boxes :
       h.boxes[i].kind = "showinfo" /\ Contains(h.boxes[i].text, <<"Generated ", n, " file(s)">>)

ReportsNoSuccess(h) ==
  /\ \A i \in DOMAIN h.boxes : h.boxes[i].kind # "showinfo"
  /\ \A i \in DOMAIN h.lines : ~Contains(h.lines[i].text, <<" file(s)">>)

ReportsFailure(h, e) ==
  /\ \E i \in DOMAIN h.lines : h.lines[i].level = "ERROR" /\ Contains(h.lines[i].text, <<e>>)
  /\ \E i \in DOMAIN h.boxes : h.boxes[i].kind = "showerror" /\ Contains(h.boxes[i].text, <<e>>)

\* The last component of a name.
LastPart(name) == <<name[Len(name)]>>

\* C8 (as stated): every body carrying a files list of n names is reported as a
\* success with the count n and every one of the names shown, with or without an
\* output directory; every body carrying an error field with message e is reported
\* as a failure with e and no success.
C8_FilesAndErrorsReported ==
  \A k \in DOMAIN handled :
    LET h == handled[k] IN
      /\ h.data.has_files =>
           /\ ReportsSuccess(h, ToString(Len(h.data.files)))
           /\ \A i \in DOMAIN h.data.files : LineShows(h, h.data.files[i])
      /\ h.data.has_error =>
           /\ ReportsFailure(h, h.data.error)
           /\ ReportsNoSuccess(h)

\* C8 (amended): every body the UI handles that carries a files list of n names
\* and no error field is reported as a success with the count n, and every listed
\* file is shown: by its name as given when no output directory is set (or the
\* list is empty), by the last component of its name when an output directory is
\* set. Every body the UI handles that carries an error field with message e,
\* with or without a files list, is reported as a failure with e and no success.
C8_FilesWithoutErrorReported ==
  \A k \in DOMAIN handled :
    LET h == handled[k] IN
      /\ (h.data.has_files /\ ~h.data.has_error) =>
           /\ ReportsSuccess(h, ToString(Len(h.data.files)))
           /\ \A i \in DOMAIN h.data.files :
                IF h.outdir = <<>>
                  THEN LineShows(h, h.data.files[i])
                  ELSE LineShows(h, LastPart(h.data.files[i]))
      /\ h.data.has_error =>
           /\ ReportsFailure(h, h.data.error)
           /\ ReportsNoSuccess(h)

\* C8's case: a body with two names handled with an output directory set, and a
\* body with an error field handled.
C8_Witness ==
  /\ \E k \in DOMAIN handled :
       /\ Len(handled[k].data.files) = 2
       /\ handled[k].outdir # <<>>
       /\ ReportsSuccess(handled[k], "2")
  /\ \E k \in DOMAIN handled :
       handled[k].data.has_error /\ ReportsFailure(handled[k], "x")

\* C9 (as stated): every POST to /callback/results is answered with status 200
\* and the body {"status": "received"}, whatever the request body is and whether
\* or not the GUI instance has been created.
C9_AlwaysReceived ==
  \A i \in DOMAIN http : http[i].status = 200 /\ http[i].body = Received

\* C9's failing case: a POST announcing JSON whose body does not parse is
\* answered 400, and nothing reaches the UI.
C9_Witness ==
  \E i \in DOMAIN http :
    /\ http[i].req.ctype = "application/json"
    /\ ~http[i].req.parses
    /\ http[i].status = 400
    /\ ~http[i].relayed

(***************************************************************************)
(* Claims about the error kinds of download_sheet (under SpecDownload)     *)
(***************************************************************************)
\* C11 (as stated): a timed-out GET yields the timeout code (-5) and the message
\* 'Timeout during download'; any other network error yields the network-error
\* code (-4) and the message 'Network error during download'.
C11_TimeoutDistinguished ==
  /\ dl.get.kind = "timeout" =>
        dl.ret.code = -5 /\ error_message(dl.ret.code) = "Timeout during download"
  /\ dl.get.kind = "connection" =>
        dl.ret.code = -4 /\ error_message(dl.ret.code) = "Network error during download"

\* C11's failing case: a timed-out GET is reported with the network-error code
\* and message.
C11_Witness ==
  /\ dl.get.kind = "timeout"
  /\ dl.ret.requested
  /\ dl.ret.code = -4
  /\ error_message(dl.ret.code) = "Network error during download"

(***************************************************************************)
(* Claims about the file hand-off and the buttons (checked under SpecGui)  *)
(***************************************************************************)
\* C12 (as stated): in a hand-off both trigger POSTs are sent, the test endpoint
\* first and the production endpoint second, whatever the test POST's outcome
\* (a status code, a connection error or a timeout), and the production POST's
\* status alone decides whether the run is reported as triggered or failed.
C12_ProductionAlwaysSent ==
  handoff.copied =>
     /\ handoff.sent = <<"webhook-test", "webhook">>
     /\ handoff.outcome \in {"triggered", "webhook failed", "cannot reach n8n"}
     /\ (handoff.outcome = "cannot reach n8n") = (handoff.prod # "response")

\* C12's failing case: the test POST timed out, the production POST was not
\* sent, and the run is reported as failed to reach n8n.
C12_Witness ==
  /\ handoff.copied
  /\ handoff.test = "timeout"
  /\ handoff.sent = <<"webhook-test">>
  /\ handoff.outcome = "cannot reach n8n"
  /\ ~processing

\* The file the last hand-off was given is (still) where it was.
OriginalExists == FileExists(handoff.file)

\* The inbox holds the last hand-off's copy under the name made from the time.
InboxHoldsCopy ==
  /\ handoff.new_name = new_name(clock)
  /\ handoff.new_name \in DOMAIN sheets
  /\ sheets[handoff.new_name] = handoff.source

Polling == {w \in DOMAIN watches : watches[w].state = "polling"}

\* C14 (as stated): at any time at most one download watch is running; a new
\* download request never leaves an earlier watch polling alongside the new one.
C14_AtMostOneWatch == Cardinality(Polling) <= 1

\* C14's failing case: two watcher threads polling, while download_thread holds
\* only the newer one.
C14_Witness ==
  /\ Polling = {1, 2}
  /\ download_thread = 2

\* C15 (as stated): from the moment a hand-off triggers the webhook until the
\* run ends, both acquisition buttons are disabled.
C15_ButtonsDisabledWhileProcessing ==
  processing => (download_btn = "disabled" /\ local_file_btn = "disabled")

\* C15's failing case: a second workflow run triggered from the UI while the
\* first is still awaiting its callback.
C15_Witness ==
  /\ processing
  /\ triggered = 2
  /\ handled = <<>>
  /\ download_btn = "normal" /\ local_file_btn = "normal"

\* C16 (as stated): after every outcome of a 'Download & Process' action, a watch
\* that ends by timeout or by an error included, both acquisition buttons are
\* eventually enabled again.
C16_ButtonsEnabledAgain ==
  [](download_btn = "disabled" =>
       <>(download_btn = "normal" /\ local_file_btn = "normal"))

\* C16's failing case: the only watch has timed out, no closure is left to run,
\* and both buttons are still disabled; no action enables them any more.
C16_Witness ==
  /\ Len(watches) = 1
  /\ watches[1].state = "timed out"
  /\ ran = Len(callbacks)
  /\ download_btn = "disabled" /\ local_file_btn = "disabled"
  /\ ~ENABLED DownloadFromSheets /\ ~ENABLED SelectLocalFile /\ ~ENABLED RunClosure

(***************************************************************************)
(* Claims about the watcher's end (checked under SpecDownloadFair)         *)
(***************************************************************************)
IsPolling(w) == w \in DOMAIN watches /\ watches[w].state = "polling"

\* C17: a watch to which no .xlsx file other than the baseline shows up as the
\* newest stops when its timeout has elapsed, and has then never invoked the
\* callback; download_sheet returned 1 when it started the watch, with the watch
\* still polling.
C17_WatchStopsWithoutCallback ==
  /\ [](\A w \in DOMAIN watches :
          watches[w].state \in {"polling", "timed out", "error"} =>
             CallsBy(callbacks, w) = <<>>)
  /\ [][Len(watches') > Len(watches) =>
          /\ dl'.ret.code = 1
          /\ watches'[Len(watches')].state = "polling"]_vars
  /\ \A w \in 1..MaxDownloads : IsPolling(w) ~> ~IsPolling(w)

\* C17's case: the watch started by a call that returned 1 has timed out with no
\* callback, the newest .xlsx file of the folder still being the baseline.
C17_Witness ==
  /\ dl.ret.code = 1
  /\ Len(watches) = 1
  /\ watches[1].state = "timed out"
  /\ watches[1].baseline = <<"a", ".xlsx">>
  /\ get_latest_xlsx(downloads) = <<"a", ".xlsx">>
  /\ callbacks = <<>>

\* The baseline file of watch w was written again after the baseline was taken,
\* it is the newest .xlsx file, and the watch has polled since.
BaselineOverwrittenAndPolled(w) ==
  /\ watches[w].baseline # None
  /\ watches[w].baseline \in DOMAIN downloads
  /\ downloads[watches[w].baseline].mtime > watches[w].since
  /\ get_latest_xlsx(downloads) = watches[w].baseline
  /\ watches[w].polled >= downloads[watches[w].baseline].mtime

\* C18 (as stated): the watcher detects a modified file as it detects a new one;
\* when the download overwrites the baseline file itself (same path, newer
\* modification time) the watcher invokes the callback with that file.
C18_DetectsOverwrittenBaseline ==
  \A w \in DOMAIN watches :
    BaselineOverwrittenAndPolled(w) =>
       /\ watches[w].state = "found"
       /\ CallsBy(callbacks, w) = <<Called(w, DownloadedFile(watches[w].baseline),
                                           downloads[watches[w].baseline].born)>>

\* C18's failing case: the baseline file was overwritten, the watch polled after
\* that and went on polling, and then timed out without any callback.
C18_Witness ==
  /\ Len(watches) = 1
  /\ BaselineOverwrittenAndPolled(1)
  /\ watches[1].state = "timed out"
  /\ callbacks = <<>>

(***************************************************************************)
(* Claims about the container and export / import (under SpecContainer)    *)
(***************************************************************************)
\* The export thread is reading the data directory, or the import thread is
\* writing to it: files are still to be copied.
WorkerInDataDir == worker.at = "working" /\ worker.left > 0

\* C19 (as stated): the container-not-running precondition holds for the whole
\* duration of an export or import: in no interleaving of the UI's actions is
\* the container running while export_n8n_data is still reading the data
\* directory or import_n8n_data is still writing to it.
C19_StoppedWhileWorking == WorkerInDataDir => ~container

\* C19's failing case: the thread's own check listed no running container, and
\* the start script pressed for afterwards has started it under the thread.
C19_Witness ==
  /\ WorkerInDataDir
  /\ worker.ps = docker_ps(FALSE)
  /\ container
  /\ script = "after"

(***************************************************************************)
(* Claims about where import writes (checked under SpecImport)             *)
(***************************************************************************)
\* C20 (as stated): for every zip archive, every file import_n8n_data creates or
\* overwrites is docker-n8n/.env or a path inside docker-n8n/n8n-data, also for
\* entries whose names hold '..' components or an absolute remainder after the
\* 'n8n-data/' prefix; entries with any other name write nothing.
C20_WritesOnlyDataDirAndEnv == DOMAIN outside = {}

\* C20's failing case: imports of the two archives with such names have
\* returned success, with docker-n8n/start-n8n.sh and /tmp/x written.
C20_Witness ==
  /\ last.op = "import"
  /\ last.from = "rooted"
  /\ last.ok
  /\ <<"start-n8n.sh">> \in DOMAIN outside
  /\ <<"/", "tmp", "x">> \in DOMAIN outside

(***************************************************************************)
(* Claims about a failing export (checked under SpecExport)                *)
(***************************************************************************)
\* The last operation was an export that returned failure.
ExportFailed == last.op = "export" /\ ~last.ok

\* C21 (as stated): whenever export_n8n_data returns failure, for any reason
\* (container running, data directory missing, no files to export, a
\* permission error or any other exception while entries are being added), no
\* new archive file exists in the user-data directory after the call.
C21_FailureLeavesNoArchive == ExportFailed => DOMAIN user_data = DOMAIN last.pre_user

\* C21's failing case: a zipf.write raised PermissionError, the export returned
\* failure, and user-data holds an archive it did not hold before.
C21_Witness ==
  /\ ExportFailed
  /\ last.from = "write"
  /\ last.msg = export_error_msg("PermissionError")
  /\ last.stamp \in DOMAIN user_data
  /\ last.stamp \notin DOMAIN last.pre_user

(***************************************************************************)
(* Claims about the container button (checked under SpecContainerFair and  *)
(* SpecContainer)                                                          *)
(***************************************************************************)
\* C22 (as stated): after every press of the Start/Stop Container button the
\* button is eventually re-enabled and the progress indicator stopped, whether
\* the script exits with zero, exits non-zero, or cannot be launched at all.
C22_ButtonEnabledAgain ==
  [](docker_btn = "disabled" => <>(docker_btn = "normal" /\ ~progress_bar))

\* C22's failing case: subprocess.run raised in the thread; the button is
\* disabled, the progress bar runs, and nothing is scheduled to undo either.
C22_Witness ==
  /\ script = "died"
  /\ docker_btn = "disabled"
  /\ progress_bar
  /\ ~ENABLED AfterToggle

\* C23 (as stated): at any time at most one periodic container-status check is
\* scheduled on the UI thread: over any sequence of start/stop operations the
\* number of pending check_docker_status timers stays at one.
C23_OneStatusTimer == timers = 1

\* C23's failing case: a start or stop has completed, its after_ closure has
\* run, and two timers are pending.
C23_Witness ==
  /\ timers = 2
  /\ script = "none"
  /\ docker_btn = "normal"
  /\ presses = 1

====
